---- MODULE Spec2Model ----
(***************************************************************************)
(* Model of the instrumentation and logging subsystem:                     *)
(*   - SupabaseLogger (src/app/lib/supabase/environment.ts): the bounded   *)
(*     in-memory log store, log(), getLogs(), clearLogs(), wrapClient();   *)
(*   - the browser-side network tap of register() (src/instrumentation.ts) *)
(*     and its forwarding sink sendToServer().                             *)
(*                                                                         *)
(* Conventions.                                                            *)
(*   An optional JavaScript value is a sequence of length 0 (undefined)    *)
(*   or 1 (the value): None, Some(x).                                      *)
(*   A JavaScript object is a sequence of entries [k |-> key, v |-> val]   *)
(*   in insertion order (the order Object.entries yields).                 *)
(*   A string that the code inspects (a property key, a URL) is a sequence *)
(*   of tokens, so that startsWith / includes / replace are computed.      *)
(***************************************************************************)
EXTENDS Integers, Sequences, FiniteSets, TLC

(***************************************************************************)
(* Bounds of the model.                                                    *)
(***************************************************************************)
\* environment.ts:55 sets MAX_LOGS = 1000; the model scales the capacity down
\* so that eviction happens within the explored runs.
MAX_LOGS == 3
\* environment.ts:181 sets the default limit of getLogs to 100; scaled down
\* with MAX_LOGS so that the default truncation happens.
DefaultLimit == 2
\* Largest reading of the clock (Date.now / performance.now).
MaxClock == 1
\* Number of calls made through the wrapped client in a run; all of them
\* can be in flight together.
MaxCalls == 2
\* Number of register() calls made in the browser in a run.
MaxInstalls == 2
\* Number of fetch calls made by the page in a run.
MaxFetches == 1

\* Largest number of entries of a details mapping given to
\* sanitizeLogDetails on its own.
MaxEntries == 2

\* Number of subscribe calls a channel receives in a run.
MaxSubscribers == 2
\* Number of status transitions a channel reports in a run.
MaxTransitions == 2

\* Number of console calls made by the page in a run.
MaxConsoleCalls == 2

\* Largest number of elements of an array posted to /api/traces.
MaxTraces == 2

\* log() is executed at most MaxLogs times in a run: enough to evict.
MaxLogs == MAX_LOGS + 1

None == <<>>
Some(x) == <<x>>

Min(a, b) == IF a < b THEN a ELSE b

(***************************************************************************)
(* JavaScript values that reach the logger.                                *)
(*   t = "undefined" | "null" | "str" | "obj" | "cyc" | "arr"              *)
(*   "obj" is a plain JSON-serialisable object, "cyc" an object with a     *)
(*   circular reference (JSON.stringify throws a TypeError on it, as on    *)
(*   a RealtimeChannel, whose socket refers back to its channels);         *)
(*   "arr" is an array whose items are the tags of its elements.           *)
(***************************************************************************)
Val(t) == [t |-> t, items |-> <<>>]
Arr(items) == [t |-> "arr", items |-> items]
Undefined == Val("undefined")
Null == Val("null")

(***************************************************************************)
(* Property keys are token sequences; the tokens are chosen so that no     *)
(* searched substring straddles two tokens.                                *)
(***************************************************************************)
Key(name) == <<name>>
Entry(k, v) == [k |-> k, v |-> v]

\* key.startsWith("_")                                  (environment.ts:124)
StartsWithUnderscore(k) == Len(k) > 0 /\ k[1] = "_"

\* key.includes("password") || ... || key.includes("session")
\*                                                  (environment.ts:128-132)
SensitiveWords == {"password", "token", "key", "secret", "session"}

\* A test for the whole key being one of the words.
IsSensitiveKey_WholeKey(k) == k \in {<<w>> : w \in SensitiveWords}

IsSensitiveKey(k) == \E i \in DOMAIN k : k[i] \in SensitiveWords

Redacted == Val("[REDACTED]")

(***************************************************************************)
(* Errors as thrown or passed to log(): kind "Error" is an instance of     *)
(* Error, "object" a plain object (returned as is by formatError),         *)
(* "string" a primitive string (text = "" is the empty, falsy string),     *)
(* "undefined" no error at all.  id is the object's identity.              *)
(***************************************************************************)
RawError(kind, id, text, details) ==
    [kind |-> kind, id |-> id, text |-> text, details |-> details]

NoError == RawError("undefined", 0, "", None)

\* getEnvironment                                     (environment.ts:7-19)
\* hasWindow tells whether typeof window is not "undefined"; an environment
\* variable that is unset (or empty, which || treats alike) is "".
getEnvironment(hasWindow, vercelEnv, nodeEnv, hostname) ==
    IF ~hasWindow
    THEN IF vercelEnv # "" THEN vercelEnv
         ELSE IF nodeEnv # "" THEN nodeEnv
         ELSE "development"
    ELSE IF hostname = "localhost" THEN "development" ELSE "production"

\* The TypeError JSON.stringify raises on a circular structure.
CircularTypeError == RawError("Error", 99, "Converting circular structure to JSON", None)

\* JavaScript truthiness of an error argument         (environment.ts:165)
Truthy(error) ==
    \/ error.kind \in {"Error", "object"}
    \/ error.kind = "string" /\ error.text # ""

\* SupabaseLogger.formatError                     (environment.ts:255-271)
formatError(error) ==
    IF error.kind = "Error"
    THEN [message |-> Some(error.text), stack |-> Some("stack"),
          details |-> error.details, ref |-> None]
    ELSE IF error.kind = "object"
    THEN [message |-> IF error.text # "" THEN Some(error.text) ELSE None,
          stack |-> None, details |-> error.details, ref |-> Some(error.id)]
    ELSE [message |-> Some(error.text), stack |-> None, details |-> None,
          ref |-> None]

\* SupabaseLogger.sanitizeLogDetails              (environment.ts:116-141)
RECURSIVE sanitizeLogDetails(_, _)
sanitizeLogDetails(details, env) ==
    IF details = <<>> THEN <<>>
    ELSE LET e == Head(details)
             rest == sanitizeLogDetails(Tail(details), env)
         IN IF ~StartsWithUnderscore(e.k) /\ e.v.t \notin {"undefined", "null"}
            THEN IF env = "production" /\ IsSensitiveKey(e.k)
                 THEN <<Entry(e.k, Redacted)>> \o rest
                 ELSE <<e>> \o rest
            ELSE rest

\* SupabaseLogger.formatValue                     (environment.ts:143-151)
\* JSON.stringify throws on a circular object; String() never throws here.
formatValue(value) ==
    IF value.t = "arr"
    THEN [threw |-> \E i \in DOMAIN value.items : value.items[i] = "cyc",
          text |-> <<"[">> \o value.items \o <<"]">>]
    ELSE IF value.t \in {"obj", "cyc"}
    THEN [threw |-> value.t = "cyc", text |-> <<"json", value.t>>]
    ELSE [threw |-> FALSE, text |-> <<value.t>>]

\* SupabaseLogger.formatLog                         (environment.ts:66-114)
\* The message is kept as its parts; threw tells that formatting raised.
formatLog(log, env) ==
    LET details == IF log.details # None
                   THEN sanitizeLogDetails(log.details[1], env) ELSE <<>>
        lines == [i \in DOMAIN details |->
                    [k |-> details[i].k, text |-> formatValue(details[i].v).text]]
        detailsThrew == \E i \in DOMAIN details : formatValue(details[i].v).threw
        err == IF log.error # None THEN log.error[1]
               ELSE [message |-> None, stack |-> None, details |-> None, ref |-> None]
        errorThrew == /\ log.error # None
                      /\ err.details # None
                      /\ err.details[1].t = "cyc"
    IN [threw |-> detailsThrew \/ errorThrew,
        message |-> [timestamp |-> log.timestamp,
                     level |-> log.level,
                     operation |-> <<"Supabase.", log.operation>>,
                     duration |-> log.duration,
                     details |-> IF log.details # None THEN Some(lines) ELSE None,
                     error |-> IF log.error = None THEN None
                               ELSE Some([message |-> IF err.message = Some("")
                                                      THEN None ELSE err.message,
                                          details |-> err.details,
                                          stack |-> IF env = "development"
                                                    THEN err.stack ELSE None])]]

(***************************************************************************)
(* State.                                                                  *)
(***************************************************************************)
VARIABLES
    NODE_ENV,     \* process.env.NODE_ENV ("" when unset)
    logs,         \* SupabaseLogger.logs, newest first
    consoleOut,   \* what console.log has printed on the server, oldest first
    clock,        \* the last reading of Date.now() / performance.now()
    wrapped,      \* what wrapClient returned: "none" | "proxy" | "identity"
    calls,        \* the calls made through the wrapped client
    logCalls,     \* how many times log() has run
    appended,     \* history: every record log() put into the store, oldest first
    clearedAt,    \* history: Len(appended) when clearLogs() last ran
    prevLogs,     \* history: the store before the last operation
    prevOut,      \* history: consoleOut before the last operation
    lastOp,       \* history: the last operation, its inputs and its result
    held,         \* an array a caller got from getLogs() and kept
    taps,         \* how many taps wrap window.fetch (browser register() calls)
    consoleProxies, \* the proxies put around the browser console, outermost last
    fetchCall,    \* the page's fetch call and how far it has got
    forwards,     \* the POSTs sendToServer has made, oldest first
    fetches,      \* how many fetch calls the page has made
    events,       \* history: how many events the taps have built
    errorOverride, \* the function register() last assigned to console.error
    consoleCalls, \* how many console calls the page has made
    lastConsole,  \* history: the page's last console call and where it went
    realtimeChannels, \* SupabaseLogger.realtimeChannels: the names registered
    channel,      \* the RealtimeChannel: who has subscribed to it, in order
    transitions   \* how many status transitions the channel has reported

loggerVars == <<NODE_ENV, logs, consoleOut, clock, wrapped, calls, logCalls,
                appended, clearedAt, prevLogs, prevOut, lastOp, held>>

tapVars == <<taps, consoleProxies, fetchCall, forwards, fetches, events,
             errorOverride, consoleCalls, lastConsole>>

realtimeVars == <<realtimeChannels, channel, transitions>>

vars == <<loggerVars, tapVars, realtimeVars>>

LogLevels == {"info", "warn", "error", "debug"}
Environments == {"", "development", "production", "test"}

(***************************************************************************)
(* SupabaseLogger.log                              (environment.ts:153-178) *)
(* The whole body as a function of the store and the console: the record   *)
(* is built first (formatError runs there), then the environment is        *)
(* tested; in development the record is unshifted, the oldest record       *)
(* popped when the length exceeds MAX_LOGS, and then the formatted record  *)
(* is printed.  formatLog may raise after the store has been changed.      *)
(* ran is the set of the logger's formatting functions that were entered.  *)
(***************************************************************************)
NewRecord(env, now, level, operation, details, error, duration) ==
    [timestamp |-> now,
     level |-> level,
     operation |-> operation,
     details |-> details,
     error |-> IF Truthy(error) THEN Some(formatError(error)) ELSE None,
     duration |-> IF duration # None /\ duration[1] # 0 THEN duration ELSE None,
     environment |-> IF env # "" THEN env ELSE "development"]

\* Unshift with the eviction test written >= instead of >.
Unshift_EvictAtCapacity(store, rec) ==
    LET pushed == <<rec>> \o store
    IN IF Len(pushed) >= MAX_LOGS THEN SubSeq(pushed, 1, Len(pushed) - 1)
       ELSE pushed

Unshift(store, rec) ==
    LET pushed == <<rec>> \o store
    IN IF Len(pushed) > MAX_LOGS THEN SubSeq(pushed, 1, Len(pushed) - 1)
       ELSE pushed

\* log with the store closed in production only.
log_StoresUnlessProduction(store, out, env, now, level, operation, details, error, duration) ==
    LET rec == NewRecord(env, now, level, operation, details, error, duration)
        ranError == IF Truthy(error) THEN {"formatError"} ELSE {}
        f == formatLog(rec, env)
    IN IF env # "production"
       THEN [logs |-> Unshift(store, rec),
             out |-> IF f.threw THEN out ELSE Append(out, f.message),
             threw |-> f.threw,
             ran |-> ranError \cup {"formatLog"},
             stored |-> <<rec>>]
       ELSE [logs |-> store, out |-> out, threw |-> FALSE, ran |-> ranError,
             stored |-> <<>>]

\* env is process.env.NODE_ENV as the call reads it: the reads at lines 167
\* and 171 belong to one synchronous call, with nothing run between them
\* that could assign the variable.
log(store, out, env, now, level, operation, details, error, duration) ==
    LET rec == NewRecord(env, now, level, operation, details, error, duration)
        ranError == IF Truthy(error) THEN {"formatError"} ELSE {}
        f == formatLog(rec, env)
    IN IF env = "development"
       THEN [logs |-> Unshift(store, rec),
             out |-> IF f.threw THEN out ELSE Append(out, f.message),
             threw |-> f.threw,
             ran |-> ranError \cup {"formatLog"},
             stored |-> <<rec>>]
       ELSE [logs |-> store, out |-> out, threw |-> FALSE, ran |-> ranError,
             stored |-> <<>>]

\* getLogs with the truncation applied before the level filter.
getLogs_TruncateFirst(store, limit, level) ==
    LET n == IF limit = None THEN DefaultLimit ELSE limit[1]
        cut == SubSeq(store, 1, Min(n, Len(store)))
    IN IF level # None THEN SelectSeq(cut, LAMBDA r : r.level = level[1])
       ELSE cut

\* SupabaseLogger.getLogs                          (environment.ts:181-187)
\* limit is None when the argument is omitted, level None when not given.
getLogs(store, limit, level) ==
    LET n == IF limit = None THEN DefaultLimit ELSE limit[1]
        filteredLogs == IF level # None
                        THEN SelectSeq(store, LAMBDA r : r.level = level[1])
                        ELSE store
    IN SubSeq(filteredLogs, 1, Min(n, Len(filteredLogs)))

(***************************************************************************)
(* Inputs of the direct log() calls: the status callback of                *)
(* trackRealtimeChannel (environment.ts:198) and calls made through the    *)
(* exported logger.                                                        *)
(***************************************************************************)
ErrPlain == RawError("Error", 1, "boom", None)
ErrObject == RawError("object", 2, "denied", Some(Val("obj")))

LogInputs ==
    { [level |-> "info", operation |-> "realtime.status",
       details |-> Some(<<Entry(Key("channel"), Val("str")),
                          Entry(Key("status"), Val("str"))>>),
       error |-> NoError, duration |-> None],
      [level |-> "warn", operation |-> "auth.refresh",
       details |-> None, error |-> ErrObject, duration |-> Some(0)],
      [level |-> "error", operation |-> "query",
       details |-> Some(<<Entry(<<"_", "internal">>, Val("str")),
                          Entry(<<"access_", "token">>, Val("str")),
                          Entry(Key("note"), Null),
                          Entry(Key("payload"), Val("cyc"))>>),
       error |-> ErrPlain, duration |-> Some(1)] }

(***************************************************************************)
(* Arrays handed out by getLogs.  A kept array is [shared, items]: shared   *)
(* tells that it is the very array object this.logs refers to, so that a   *)
(* write to the store in place shows through it; items is what a reader of *)
(* the kept array sees; returned is what getLogs returned and at the number *)
(* of records appended by then (both history).                             *)
(***************************************************************************)
\* A getLogs that returns this.logs itself when nothing is filtered out or
\* cut off.
ArrayOfGetLogs_StoreWhenWhole(store, limit, level) ==
    IF level = None /\ limit # None /\ limit[1] >= Len(store)
    THEN [shared |-> TRUE, items |-> getLogs(store, limit, level)]
    ELSE [shared |-> FALSE, items |-> getLogs(store, limit, level)]

\* The array getLogs returns: filteredLogs.slice(0, limit) is always a new
\* array                                              (environment.ts:186)
ArrayOfGetLogs(store, limit, level) ==
    [shared |-> FALSE, items |-> getLogs(store, limit, level)]

\* this.logs.unshift(log) and this.logs.pop() change the store's array in
\* place                                          (environment.ts:172-175)
HeldAfterWrite(h, written) ==
    IF h # None /\ h[1].shared THEN Some([h[1] EXCEPT !.items = written])
    ELSE h

\* this.logs = [] makes the store refer to a new array and leaves the old
\* one as it was                                      (environment.ts:191)
HeldAfterReplace(h) ==
    IF h # None THEN Some([h[1] EXCEPT !.shared = FALSE]) ELSE h

NoCall == [pc |-> "idle"]

Init ==
    /\ NODE_ENV \in Environments
    /\ logs = <<>>
    /\ consoleOut = <<>>
    /\ clock = 0
    /\ wrapped = "none"
    /\ calls = [c \in 1..MaxCalls |-> NoCall]
    /\ logCalls = 0
    /\ appended = <<>>
    /\ clearedAt = 0
    /\ prevLogs = <<>>
    /\ prevOut = <<>>
    /\ lastOp = [op |-> "init"]
    /\ held = None
    /\ taps = 0
    /\ consoleProxies = <<>>
    /\ fetchCall = [pc |-> "idle"]
    /\ forwards = <<>>
    /\ fetches = 0
    /\ events = 0
    /\ errorOverride = None
    /\ consoleCalls = 0
    /\ lastConsole = [method |-> "none"]
    /\ realtimeChannels = {}
    /\ channel = [subscribers |-> <<>>]
    /\ transitions = 0

\* What a reading of the clock can return: time does not run backwards, and
\* at most one unit has passed since the previous reading.
Readings == clock .. Min(clock + 1, MaxClock)

\* A direct call of logger.log(level, operation, details, error, duration).
Log ==
    /\ logCalls < MaxLogs
    /\ \E in \in LogInputs, now \in Readings :
         LET r == log(logs, consoleOut, NODE_ENV, now, in.level, in.operation,
                      in.details, in.error, in.duration)
         IN /\ clock' = now
            /\ logs' = r.logs
            /\ consoleOut' = r.out
            /\ appended' = appended \o r.stored
            /\ held' = HeldAfterWrite(held, r.logs)
            /\ lastOp' = [op |-> "log", input |-> in, threw |-> r.threw,
                          ran |-> r.ran, env |-> NODE_ENV]
    /\ logCalls' = logCalls + 1
    /\ prevLogs' = logs
    /\ prevOut' = consoleOut
    /\ UNCHANGED <<NODE_ENV, wrapped, calls, clearedAt>>
    /\ UNCHANGED <<tapVars, realtimeVars>>

\* process.env.NODE_ENV is assigned another value between two calls of the
\* logger.  Two assignments in a row are one assignment.
SetEnv ==
    /\ lastOp.op # "setEnv"
    /\ \E env \in Environments \ {NODE_ENV} : NODE_ENV' = env
    /\ lastOp' = [op |-> "setEnv", from |-> NODE_ENV]
    /\ prevLogs' = logs
    /\ prevOut' = consoleOut
    /\ UNCHANGED <<logs, consoleOut, clock, wrapped, calls, logCalls, appended,
                   clearedAt, held>>
    /\ UNCHANGED <<tapVars, realtimeVars>>

\* getLogs(limit, level), as exported at environment.ts:282-283.
QueryLimits == {None} \cup {Some(n) : n \in {0, 1, MAX_LOGS + 1}}
QueryLevels == {None, Some("error")}

GetLogs ==
    /\ \E limit \in QueryLimits, level \in QueryLevels :
         lastOp' = [op |-> "getLogs", limit |-> limit, level |-> level,
                    returned |-> getLogs(logs, limit, level)]
    /\ prevLogs' = logs
    /\ prevOut' = consoleOut
    /\ UNCHANGED <<NODE_ENV, logs, consoleOut, clock, wrapped, calls, logCalls,
                   appended, clearedAt, held>>
    /\ UNCHANGED <<tapVars, realtimeVars>>

\* SupabaseLogger.clearLogs                        (environment.ts:190-192)
ClearLogs ==
    /\ logs # <<>>
    /\ logs' = <<>>
    /\ held' = HeldAfterReplace(held)
    /\ clearedAt' = Len(appended)
    /\ lastOp' = [op |-> "clearLogs"]
    /\ prevLogs' = logs
    /\ prevOut' = consoleOut
    /\ UNCHANGED <<NODE_ENV, consoleOut, clock, wrapped, calls, logCalls,
                   appended>>
    /\ UNCHANGED <<tapVars, realtimeVars>>

\* A caller calls getLogs(limit, level) and keeps the array it returns.
KeepLogs ==
    /\ held = None
    /\ \E limit \in QueryLimits, level \in QueryLevels :
         LET a == ArrayOfGetLogs(logs, limit, level)
         IN /\ held' = Some([shared |-> a.shared, items |-> a.items,
                             returned |-> a.items, at |-> Len(appended)])
            /\ lastOp' = [op |-> "getLogs", limit |-> limit, level |-> level,
                          returned |-> a.items]
    /\ prevLogs' = logs
    /\ prevOut' = consoleOut
    /\ UNCHANGED <<NODE_ENV, logs, consoleOut, clock, wrapped, calls, logCalls,
                   appended, clearedAt>>
    /\ UNCHANGED <<tapVars, realtimeVars>>

StoreNext == Log \/ GetLogs \/ ClearLogs

SnapshotNext == Log \/ KeepLogs \/ ClearLogs

\* The store with a caller that keeps a result of getLogs.
SnapshotSpec == Init /\ [][SnapshotNext]_vars

Spec == Init /\ [][StoreNext]_vars

\* The logger in a process whose NODE_ENV changes while it runs.
EnvNext == Log \/ SetEnv

EnvSpec == Init /\ [][EnvNext]_vars

(***************************************************************************)
(* SupabaseLogger.trackRealtimeChannel             (environment.ts:194-205) *)
(* One RealtimeChannel is considered.  channel.subscribers lists the       *)
(* subscribe calls the channel has received: by tells who made the call    *)
(* (trackRealtimeChannel or the application), name the channel name the    *)
(* tracker's callback logs.                                                *)
(***************************************************************************)
ChannelNames == {"room", "alerts"}

\* channel.subscribe((status) => ...) called by trackRealtimeChannel: the
\* channel gets one more subscribe call and one more callback
\*                                                 (environment.ts:197-202)
TrackerSubscribers(subscribers, channelName) ==
    Append(subscribers, [by |-> "tracker", name |-> channelName])

\* logger.trackRealtimeChannel(channel, channelName); it returns the channel
\* it was given.
TrackRealtimeChannel ==
    /\ Len(channel.subscribers) < MaxSubscribers
    /\ \E channelName \in ChannelNames :
         /\ realtimeChannels' = realtimeChannels \cup {channelName}
         /\ channel' = [subscribers |->
                           TrackerSubscribers(channel.subscribers, channelName)]
         /\ lastOp' = [op |-> "trackRealtimeChannel", name |-> channelName,
                       returned |-> "channel",
                       before |-> channel.subscribers]
    /\ prevLogs' = logs
    /\ prevOut' = consoleOut
    /\ UNCHANGED <<NODE_ENV, logs, consoleOut, clock, wrapped, calls, logCalls,
                   appended, clearedAt, held, transitions>>
    /\ UNCHANGED tapVars

\* The application subscribes to the channel with a callback of its own.
Subscribe ==
    /\ Len(channel.subscribers) < MaxSubscribers
    /\ channel' = [subscribers |->
                      Append(channel.subscribers, [by |-> "caller", name |-> ""])]
    /\ lastOp' = [op |-> "subscribe"]
    /\ prevLogs' = logs
    /\ prevOut' = consoleOut
    /\ UNCHANGED <<NODE_ENV, logs, consoleOut, clock, wrapped, calls, logCalls,
                   appended, clearedAt, held, realtimeChannels, transitions>>
    /\ UNCHANGED tapVars

\* The callbacks of the channel are called with a status, in the order they
\* were given; the tracker's callback calls log() (environment.ts:197-202)
RECURSIVE NotifyStatus(_, _, _, _, _)
NotifyStatus(subscribers, store, out, env, now) ==
    IF subscribers = <<>> THEN [logs |-> store, out |-> out, stored |-> <<>>, ran |-> 0]
    ELSE LET sub == Head(subscribers)
             r == IF sub.by = "tracker"
                  THEN log(store, out, env, now, "info", "realtime.status",
                           Some(<<Entry(Key("channel"), Val("str")),
                                  Entry(Key("status"), Val("str"))>>),
                           NoError, None)
                  ELSE [logs |-> store, out |-> out, stored |-> <<>>]
             rest == NotifyStatus(Tail(subscribers), r.logs, r.out, env, now)
         IN [logs |-> rest.logs, out |-> rest.out,
             stored |-> r.stored \o rest.stored,
             ran |-> rest.ran + (IF sub.by = "tracker" THEN 1 ELSE 0)]

\* The channel reports a status transition to its callbacks.
StatusChange ==
    /\ channel.subscribers # <<>>
    /\ transitions < MaxTransitions
    /\ \E now \in Readings :
         LET r == NotifyStatus(channel.subscribers, logs, consoleOut, NODE_ENV, now)
         IN /\ logs' = r.logs
            /\ consoleOut' = r.out
            /\ appended' = appended \o r.stored
            /\ held' = HeldAfterWrite(held, r.logs)
            /\ logCalls' = logCalls + r.ran
            /\ clock' = now
            /\ lastOp' = [op |-> "status", stored |-> r.stored, env |-> NODE_ENV,
                          subscribers |-> channel.subscribers]
    /\ transitions' = transitions + 1
    /\ prevLogs' = logs
    /\ prevOut' = consoleOut
    /\ UNCHANGED <<NODE_ENV, wrapped, calls, clearedAt, realtimeChannels, channel>>
    /\ UNCHANGED tapVars

RealtimeNext == TrackRealtimeChannel \/ Subscribe \/ StatusChange

RealtimeSpec == Init /\ [][RealtimeNext]_vars

(***************************************************************************)
(* The pure functions of environment.ts applied to drawn inputs.           *)
(***************************************************************************)
\* Keys and values of the flat mappings given to sanitizeLogDetails.  The
\* last value is an object whose own keys (kept in items) are an underscore
\* key and a sensitive key.
DetailKeys ==
    { <<"_", "internal">>, <<"access_", "token">>, Key("note"),
      Key("session"), <<"api", "key", "_id">> }
DetailValues ==
    { Val("str"), Null, Undefined, [t |-> "obj", items |-> <<"_id", "token">>] }

\* The flat mappings of at most n entries (an object has no key twice).
RECURSIVE DetailMappings(_)
DetailMappings(n) ==
    IF n = 0 THEN {<<>>}
    ELSE LET shorter == DetailMappings(n - 1)
         IN shorter \cup
            { Append(m, Entry(k, v)) :
                m \in {x \in shorter : Len(x) = n - 1},
                k \in DetailKeys, v \in DetailValues }

HasKeyTwice(m) == \E i, j \in DOMAIN m : i # j /\ m[i].k = m[j].k

\* sanitizeLogDetails(details) is called in the environment of the process.
\* The function keeps no state, so a behaviour applies it to one input.
Sanitize ==
    /\ lastOp.op = "init"
    /\ \E details \in DetailMappings(MaxEntries) :
         /\ ~HasKeyTwice(details)
         /\ lastOp' = [op |-> "sanitizeLogDetails", details |-> details,
                       env |-> NODE_ENV,
                       returned |-> sanitizeLogDetails(details, NODE_ENV)]
    /\ UNCHANGED <<NODE_ENV, logs, consoleOut, clock, wrapped, calls, logCalls,
                   appended, clearedAt, prevLogs, prevOut, held>>
    /\ UNCHANGED <<tapVars, realtimeVars>>

\* The values of NEXT_PUBLIC_VERCEL_ENV ("" when unset) and of
\* window.location.hostname.
VercelEnvs == {"", "development", "preview", "production"}
Hostnames == {"localhost", "127.0.0.1", "app.example.com"}

\* getEnvironment() is called on the server or in a browser.
GetEnvironment ==
    /\ lastOp.op = "init"
    /\ \E hasWindow \in BOOLEAN, vercelEnv \in VercelEnvs, hostname \in Hostnames :
         lastOp' = [op |-> "getEnvironment", hasWindow |-> hasWindow,
                    vercelEnv |-> vercelEnv, nodeEnv |-> NODE_ENV,
                    hostname |-> hostname,
                    returned |-> getEnvironment(hasWindow, vercelEnv, NODE_ENV,
                                                hostname)]
    /\ UNCHANGED <<NODE_ENV, logs, consoleOut, clock, wrapped, calls, logCalls,
                   appended, clearedAt, prevLogs, prevOut, held>>
    /\ UNCHANGED <<tapVars, realtimeVars>>

FnNext == Sanitize \/ GetEnvironment

FnSpec == Init /\ [][FnNext]_vars

(***************************************************************************)
(* The ingest endpoint POST /api/traces      (src/app/api/traces/route.ts) *)
(***************************************************************************)
\* An element of a posted array.  name is the event's name as tokens, or
\* None when the element has no name property; level, duration and the
\* attributes are optional.
TraceEvent(name, level, duration, attributes) ==
    [name |-> name, level |-> level, duration |-> duration,
     attributes |-> attributes, timestamp |-> 1]

TraceAttributes(method, status, error) ==
    [method |-> method, url |-> <<"[SUPABASE_URL]", "/rest/v1/t">>,
     status |-> status, statusText |-> "Not Found", error |-> error]

BackendErrorEvent ==
    TraceEvent(Some(<<"Supabase.", "error">>), Some("error"), Some(12),
               Some(TraceAttributes(Some("GET"), Some(404), Some("obj"))))

TraceEvents ==
    { BackendErrorEvent,
      TraceEvent(Some(<<"Supabase.", "query">>), Some("info"), Some(0), None),
      TraceEvent(Some(<<"app.", "click">>), Some("error"), None,
                 Some(TraceAttributes(None, None, Some("str")))) }

\* An array element that is not a trace event: an object without a name.
Nameless == TraceEvent(None, Some("error"), None, None)

\* The arrays of at most n elements.
RECURSIVE TraceArrays(_)
TraceArrays(n) ==
    IF n = 0 THEN {<<>>}
    ELSE LET shorter == TraceArrays(n - 1)
         IN shorter \cup
            { Append(a, e) : a \in {x \in shorter : Len(x) = n - 1},
                             e \in TraceEvents }

\* Request bodies: text that is not JSON, JSON values that are not arrays,
\* arrays of trace events, and arrays with an element that is not one.
RequestBodies ==
    { [kind |-> k, items |-> <<>>] : k \in {"invalid", "object", "null"} }
        \cup { [kind |-> "array", items |-> a] : a \in TraceArrays(MaxTraces) }
        \cup { [kind |-> "array", items |-> <<Nameless>>],
               [kind |-> "array", items |-> <<BackendErrorEvent, Nameless>>] }

\* trace.name.startsWith("Supabase.")                        (route.ts:59)
\* It raises a TypeError when the element has no name.
StartsWithSupabase(trace) == trace.name[1][1] = "Supabase."

\* formatSupabaseError: the parts of the message             (route.ts:23-52)
formatSupabaseError(trace) ==
    LET a == trace.attributes
    IN [timestamp |-> trace.timestamp,
        duration |-> IF trace.duration # None /\ trace.duration[1] # 0
                     THEN trace.duration ELSE None,
        request |-> IF a # None /\ a[1].method # None
                    THEN Some(<<a[1].method[1], a[1].url>>) ELSE None,
        status |-> IF a # None /\ a[1].status # None /\ a[1].status[1] # 0
                   THEN Some(<<a[1].status[1], a[1].statusText>>) ELSE None,
        error |-> IF a # None THEN a[1].error ELSE None]

\* traces.forEach(...)                                    (route.ts:58-63)
\* The lines printed with console.error, and whether an element raised.
RECURSIVE ForEachTrace(_)
ForEachTrace(traces) ==
    IF traces = <<>> THEN [lines |-> <<>>, threw |-> FALSE]
    ELSE LET trace == Head(traces)
         IN IF trace.name = None THEN [lines |-> <<>>, threw |-> TRUE]
            ELSE LET rest == ForEachTrace(Tail(traces))
                 IN [lines |-> (IF StartsWithSupabase(trace)
                                THEN <<formatSupabaseError(trace)>> ELSE <<>>)
                                   \o rest.lines,
                     threw |-> rest.threw]

\* The handler's answer and what it printed                (route.ts:54-70)
\* request.json() raises on text that is not JSON and traces.forEach on a
\* value that is not an array; the catch block prints one more line and
\* answers 400.
RouteResult(body) ==
    LET each == IF body.kind = "array" THEN ForEachTrace(body.items)
                ELSE [lines |-> <<>>, threw |-> TRUE]
    IN IF each.threw
       THEN [status |-> 400, json |-> "{error: Invalid trace data}",
             lines |-> each.lines, caught |-> TRUE]
       ELSE [status |-> 200, json |-> "{ok: true}", lines |-> each.lines,
             caught |-> FALSE]

\* A handler that also records the events it printed in the logger's store.
POST_AppendsToStore(store, body) ==
    [response |-> RouteResult(body),
     logs |-> IF RouteResult(body).lines # <<>>
              THEN <<[timestamp |-> 1, level |-> "error", operation |-> "error",
                      details |-> None, error |-> None, duration |-> None,
                      environment |-> "development"]>> \o store
              ELSE store]

\* POST: the answer, and the logger's store after the request.  The route
\* module does not import the logger                        (route.ts:1-70)
POST(store, body) == [response |-> RouteResult(body), logs |-> store]

\* A client posts a body to /api/traces.  A request leaves nothing behind
\* that a later request reads, so a request made right after another one
\* reaches no state that a single request does not reach; the first
\* conjunct leaves out those repeated steps.
Post ==
    /\ lastOp.op # "POST"
    /\ \E body \in RequestBodies :
         LET r == POST(logs, body)
         IN /\ logs' = r.logs
            /\ held' = HeldAfterWrite(held, r.logs)
            /\ lastOp' = [op |-> "POST", body |-> body, response |-> r.response]
    /\ prevLogs' = logs
    /\ prevOut' = consoleOut
    /\ UNCHANGED <<NODE_ENV, consoleOut, clock, wrapped, calls, logCalls,
                   appended, clearedAt>>
    /\ UNCHANGED <<tapVars, realtimeVars>>

IngestNext == Log \/ Post

IngestSpec == Init /\ [][IngestNext]_vars

(***************************************************************************)
(* SupabaseLogger.wrapClient                      (environment.ts:207-252) *)
(*                                                                         *)
(* Outside development the client itself is returned ("identity");  in     *)
(* development a Proxy whose function-valued properties are wrapped by an  *)
(* async apply trap.  A call through the trap reads the clock, awaits the  *)
(* original (the call is suspended: pc = "awaiting") and, when it is       *)
(* resumed, runs to its end in one step: log(), then return or throw.      *)
(* What reaches the caller is what the returned promise settles with.      *)
(***************************************************************************)
Result(kind, id, data) == [kind |-> kind, id |-> id, data |-> data]
NoResult == Result("none", 0, Undefined)

Returned(v) == [type |-> "return", result |-> v, error |-> NoError]
Thrown(e) == [type |-> "throw", result |-> NoResult, error |-> e]

\* The methods invoked, with their arguments: from(table), rpc(fn, params)
\* and removeChannel(channel), whose argument is a RealtimeChannel.
Invocations ==
    { [prop |-> "from", args |-> <<"str">>],
      [prop |-> "removeChannel", args |-> <<"cyc">>] }

\* What the original method settles with.
Outcomes ==
    { Returned(Result("undefined", 0, Undefined)),
      Returned(Result("object", 1, Val("obj"))),
      Thrown(ErrPlain),
      Thrown(NoError) }

\* A wrapClient that wraps the client in every environment.
wrapClient_AlwaysProxy(env) == "proxy"

\* What wrapClient returns: the client it was given when the environment is
\* not development, a Proxy around it otherwise (environment.ts:207-217)
wrapClient(env) == IF env # "development" THEN "identity" ELSE "proxy"

WrapClient ==
    /\ wrapped = "none"
    /\ wrapped' = wrapClient(NODE_ENV)
    /\ lastOp' = [op |-> "wrapClient"]
    /\ prevLogs' = logs
    /\ prevOut' = consoleOut
    /\ UNCHANGED <<NODE_ENV, logs, consoleOut, clock, calls, logCalls,
                   appended, clearedAt, held>>
    /\ UNCHANGED <<tapVars, realtimeVars>>

\* The apply trap up to its await            (environment.ts:218-221), or the
\* plain call of the method when the client is not wrapped.  Calls are
\* numbered in the order they are made.
Invoke(c) ==
    /\ wrapped # "none"
    /\ calls[c].pc = "idle"
    /\ \A d \in 1..(c - 1) : calls[d].pc # "idle"
    /\ \E inv \in Invocations, now \in Readings :
         /\ calls' = [calls EXCEPT ![c] =
                        [pc |-> "awaiting", prop |-> inv.prop, args |-> inv.args,
                         viaProxy |-> (wrapped = "proxy"), startTime |-> now]]
         /\ clock' = now
    /\ lastOp' = [op |-> "invoke", call |-> c]
    /\ prevLogs' = logs
    /\ prevOut' = consoleOut
    /\ UNCHANGED <<NODE_ENV, logs, consoleOut, wrapped, logCalls, appended,
                   clearedAt, held>>
    /\ UNCHANGED <<tapVars, realtimeVars>>

\* The apply trap after its await             (environment.ts:221-244), as a
\* function of the store and console: the store and console it leaves, what
\* the caller receives, and the records it stored.
ApplyTrap(store, out, env, now, call, outcome) ==
    LET duration == Some(now - call.startTime)
        argsEntry == Entry(Key("arguments"), Arr(call.args))
        ok == log(store, out, env, now, "info", call.prop,
                  Some(<<argsEntry, Entry(Key("result"), outcome.result.data)>>),
                  NoError, duration)
        \* the catch block, entered with the error that was caught
        caught == IF outcome.type = "throw" THEN outcome.error
                  ELSE CircularTypeError
        from == IF outcome.type = "throw"
                THEN [logs |-> store, out |-> out, stored |-> <<>>]
                ELSE ok
        bad == log(from.logs, from.out, env, now, "error", call.prop,
                   Some(<<argsEntry>>), caught, duration)
    IN IF outcome.type = "return" /\ ~ok.threw
       THEN [logs |-> ok.logs, out |-> ok.out, stored |-> ok.stored,
             logCalls |-> 1, delivered |-> outcome]
       ELSE [logs |-> bad.logs, out |-> bad.out,
             stored |-> from.stored \o bad.stored,
             logCalls |-> IF outcome.type = "throw" THEN 1 ELSE 2,
             delivered |-> IF bad.threw THEN Thrown(CircularTypeError)
                           ELSE Thrown(caught)]

\* The original method settles and the suspended call runs to its end.
Settle(c) ==
    /\ calls[c].pc = "awaiting"
    /\ \E outcome \in Outcomes, now \in Readings :
         LET r == IF calls[c].viaProxy
                  THEN ApplyTrap(logs, consoleOut, NODE_ENV, now, calls[c], outcome)
                  ELSE [logs |-> logs, out |-> consoleOut, stored |-> <<>>,
                        logCalls |-> 0, delivered |-> outcome]
         IN /\ logs' = r.logs
            /\ consoleOut' = r.out
            /\ appended' = appended \o r.stored
            /\ held' = HeldAfterWrite(held, r.logs)
            /\ logCalls' = logCalls + r.logCalls
            /\ clock' = now
            /\ calls' = [calls EXCEPT ![c] =
                           [pc |-> "done", prop |-> calls[c].prop,
                            args |-> calls[c].args,
                            viaProxy |-> calls[c].viaProxy,
                            startTime |-> calls[c].startTime,
                            original |-> outcome, delivered |-> r.delivered,
                            stored |-> r.stored]]
    /\ lastOp' = [op |-> "settle", call |-> c]
    /\ prevLogs' = logs
    /\ prevOut' = consoleOut
    /\ UNCHANGED <<NODE_ENV, wrapped, clearedAt>>
    /\ UNCHANGED <<tapVars, realtimeVars>>

WrapNext ==
    \/ WrapClient
    \/ \E c \in 1..MaxCalls : Invoke(c)
    \/ \E c \in 1..MaxCalls : Settle(c)

WrapSpec == Init /\ [][WrapNext]_vars

(***************************************************************************)
(* The network tap installed by register() in a browser                    *)
(*                                          (src/instrumentation.ts:35-238) *)
(***************************************************************************)
\* URLs as token sequences.  "supabase.co" is the only token that holds the
\* text the tap searches for.
BackendUrl == <<"https://", "proj", ".", "supabase.co", "/rest/v1/t">>
HttpBackendUrl == <<"http://", "proj", ".", "supabase.co", "/rest/v1/t">>
OtherUrl == <<"https://", "example.com", "/data">>
\* An ingest endpoint hosted on the backend.
IngestUrl_OnBackend == <<"https://", "proj", ".", "supabase.co", "/api/traces">>
\* The URL sendToServer posts to                     (instrumentation.ts:38)
IngestUrl == <<"/api/traces">>

Urls == {BackendUrl, HttpBackendUrl, OtherUrl}

\* The first argument of fetch: a string, a URL or a Request
\*                                                (instrumentation.ts:60-65)
FetchInputs ==
    {[kind |-> "string", url |-> u] : u \in Urls}
        \cup {[kind |-> "Request", url |-> BackendUrl]}
UrlOf(input) == input.url

\* The second argument of fetch, reduced to its method.
FetchInits == {[method |-> None], [method |-> Some("POST")]}

\* url.includes("supabase.co")                       (instrumentation.ts:68)
IncludesBackendHost(url) == \E i \in DOMAIN url : url[i] = "supabase.co"

\* A tap that takes every call for a backend call.
TapRoute_Always(url) == "intercept"

\* Whether a tap handles the call itself or hands it to the fetch it wrapped.
TapRoute(url) == IF IncludesBackendHost(url) THEN "intercept" ELSE "delegate"

\* url.replace(/https:\/\/.*\.supabase\.co/, "[SUPABASE_URL]")
\*                                              (instrumentation.ts:105-108)
\* The match starts at the first "https://" that is followed by some
\* ".supabase.co" and, .* being greedy, ends with the last one.
RedactUrl(url) ==
    LET ends == {j \in DOMAIN url :
                    /\ j + 1 \in DOMAIN url
                    /\ url[j] = "." /\ url[j + 1] = "supabase.co"}
        starts == {i \in DOMAIN url :
                    url[i] = "https://" /\ \E j \in ends : j > i}
    IN IF starts = {} THEN url
       ELSE LET i0 == CHOOSE i \in starts : \A k \in starts : i <= k
                j0 == CHOOSE j \in ends : \A k \in ends : k <= j
            IN SubSeq(url, 1, i0 - 1) \o <<"[SUPABASE_URL]">>
                   \o SubSeq(url, j0 + 2, Len(url))

\* Responses of the native fetch.  json tells that the content type includes
\* application/json, valid that the body parses as JSON; bodyUsed is the
\* state of the Response object the caller receives.
Response(id, status, statusText, json, valid) ==
    [id |-> id, status |-> status, statusText |-> statusText, json |-> json,
     valid |-> valid, bodyUsed |-> FALSE]

Responses ==
    { Response(1, 200, "OK", TRUE, TRUE),
      Response(2, 404, "Not Found", TRUE, TRUE),
      Response(3, 500, "Internal Server Error", FALSE, FALSE),
      Response(4, 400, "Bad Request", TRUE, FALSE) }

NoResponse == Response(0, 0, "", FALSE, FALSE)

\* Response.ok
IsOk(response) == response.status >= 200 /\ response.status <= 299

FetchTypeError == RawError("Error", 11, "Failed to fetch", None)
AbortError == RawError("Error", 12, "The operation was aborted", None)

Resolved(r) == [type |-> "response", response |-> r, error |-> NoError]
Rejected(e) == [type |-> "throw", response |-> NoResponse, error |-> e]
NoOutcome == [type |-> "none", response |-> NoResponse, error |-> NoError]

NativeOutcomes ==
    {Resolved(r) : r \in Responses} \cup {Rejected(FetchTypeError), Rejected(AbortError)}

\* The inspection without response.clone(): the body of the response itself
\* is read.
Inspect_ReadsOriginal(response) ==
    [response |-> [response EXCEPT !.bodyUsed = response.json],
     data |-> IF response.json /\ response.valid
              THEN Some([kind |-> "json", of |-> response.id, text |-> ""])
              ELSE None]

\* The response is inspected on a clone            (instrumentation.ts:75-87)
\* whose body is read when the content type is JSON; a body that does not
\* parse leaves responseData undefined.  The original is not read.
Inspect(response) ==
    [response |-> response,
     data |-> IF response.json /\ response.valid
              THEN Some([kind |-> "json", of |-> response.id, text |-> ""])
              ELSE None]

\* init?.method || "GET"
MethodOf(init) ==
    IF init.method # None /\ init.method[1] # "" THEN init.method[1] ELSE "GET"

\* The event built for a non-2xx response          (instrumentation.ts:100-114)
ResponseEvent(url, init, response, data) ==
    [name |-> "Supabase.error", level |-> "error", hasDuration |-> TRUE,
     attributes |-> [url |-> RedactUrl(url), method |-> MethodOf(init),
                     status |-> Some(response.status),
                     statusText |-> Some(response.statusText),
                     error |-> data, stack |-> None]]

\* The event built for a fetch that threw          (instrumentation.ts:129-138)
ThrowEvent(url, init, error) ==
    [name |-> "Supabase.error", level |-> "error", hasDuration |-> FALSE,
     attributes |-> [url |-> RedactUrl(url), method |-> MethodOf(init),
                     status |-> None, statusText |-> None,
                     error |-> Some([kind |-> "message", of |-> error.id,
                                     text |-> error.text]),
                     stack |-> Some("stack")]]

\* sendToServer: one POST of the event to the ingest endpoint through the
\* global fetch, that is through the taps           (instrumentation.ts:36-48)
sendToServer(event, cause) ==
    [event |-> event, environment |-> "client", url |-> IngestUrl,
     route |-> TapRoute(IngestUrl), cause |-> cause, state |-> "inflight"]

\* sendToServer without its catch: the failure of the POST reaches the tap.
AfterSendToServer_Rethrows(result, outcome) ==
    IF result = "rejected"
    THEN Rejected(RawError("Error", 13, "Failed to fetch", None))
    ELSE outcome

\* What the code that awaited sendToServer goes on with when the POST has
\* settled: sendToServer catches every failure     (instrumentation.ts:49-51)

AfterSendToServer(result, outcome) == outcome

\* What a tap hands to the fetch it wrapped      (instrumentation.ts:72, 144)
Delegated(input, init) == [input |-> input, init |-> init]

\* Upper bound on the POSTs of a run, reached only if a POST of sendToServer
\* were itself taken for a backend call.
ForwardCap == MaxFetches * MaxInstalls + 2

\* What reading console.error yields when register() saves it as
\* originalConsoleError                             (instrumentation.ts:192):
\* the native function when the console is still the native object, the
\* empty function of a silencing proxy, or the function made by the get trap
\* of the safeConsole proxy that is outermost (depth is its position).
ReadConsoleError(proxies) ==
    IF proxies = <<>> THEN [kind |-> "native", depth |-> 0]
    ELSE IF proxies[Len(proxies)] = "noop" THEN [kind |-> "noop", depth |-> 0]
    ELSE [kind |-> "safe", depth |-> Len(proxies)]

\* register() in a browser: window.fetch is wrapped once more, console.error
\* is assigned a new function (the assignment lands on the native console
\* object, no proxy having a set trap) and the console is replaced by
\* safeConsole                            (instrumentation.ts:55-56, 191-237)
Register ==
    /\ taps < MaxInstalls
    /\ taps' = taps + 1
    /\ errorOverride' = Some([original |-> ReadConsoleError(consoleProxies)])
    /\ consoleProxies' = Append(consoleProxies, "safe")
    /\ UNCHANGED <<fetchCall, forwards, fetches, events, consoleCalls,
                   lastConsole>>
    /\ UNCHANGED <<loggerVars, realtimeVars>>

\* The page calls fetch(input, init).  Every installed tap computes the url
\* and either awaits the fetch it wrapped inside its try block or returns
\* what that fetch returns; the innermost one calls the native fetch.
\*                                              (instrumentation.ts:56-72, 144)
FetchStart ==
    /\ fetchCall.pc \in {"idle", "done"}
    /\ fetches < MaxFetches
    /\ \E input \in FetchInputs, init \in FetchInits :
         fetchCall' =
             [pc |-> "native", input |-> input, init |-> init, layers |-> taps,
              intercepted |-> (taps > 0 /\ TapRoute(UrlOf(input)) = "intercept"),
              handed |-> IF taps > 0 THEN Delegated(input, init)
                         ELSE [input |-> input, init |-> init],
              native |-> NoOutcome, current |-> NoOutcome, layer |-> 0,
              awaiting |-> 0, sent |-> <<>>, delivered |-> NoOutcome,
              consoleAtStart |-> consoleProxies,
              forwardsAtStart |-> Len(forwards)]
    /\ fetches' = fetches + 1
    /\ UNCHANGED <<taps, consoleProxies, forwards, events, errorOverride,
                   consoleCalls, lastConsole>>
    /\ UNCHANGED <<loggerVars, realtimeVars>>

\* Tap number k (1 is the innermost) is resumed with the outcome of the fetch
\* it wrapped                                    (instrumentation.ts:72-141).
\* A 2xx response is returned after the inspection, and the next tap is
\* resumed with it; for any other response, and for a throw, the tap builds
\* an event and awaits sendToServer.
RECURSIVE TapAfterFetch(_, _, _, _, _)
TapAfterFetch(k, layers, outcome, url, init) ==
    IF k > layers
    THEN [pc |-> "done", layer |-> layers, outcome |-> outcome, event |-> None]
    ELSE IF outcome.type = "response"
    THEN LET seen == Inspect(outcome.response)
         IN IF ~IsOk(seen.response)
            THEN [pc |-> "forwarding", layer |-> k,
                  outcome |-> Resolved(seen.response),
                  event |-> Some(ResponseEvent(url, init, seen.response, seen.data))]
            ELSE TapAfterFetch(k + 1, layers, Resolved(seen.response), url, init)
    ELSE [pc |-> "forwarding", layer |-> k, outcome |-> outcome,
          event |-> Some(ThrowEvent(url, init, outcome.error))]

\* The effect of a step of the call on the tap's state: when an event was
\* built, the console is wrapped by the proxy that silences console.error
\* (instrumentation.ts:91-98, 120-127) and sendToServer posts the event.
Advance(call, step, settled) ==
    LET n == Len(settled) + 1
    IN /\ forwards' = IF step.event # None
                      THEN Append(settled,
                                  sendToServer(step.event[1],
                                               [fetch |-> fetches, layer |-> step.layer]))
                      ELSE settled
       /\ consoleProxies' = IF step.event # None
                            THEN Append(consoleProxies, "noop") ELSE consoleProxies
       /\ events' = IF step.event # None THEN events + 1 ELSE events
       /\ fetchCall' = [call EXCEPT
                          !.pc = step.pc,
                          !.layer = step.layer,
                          !.current = step.outcome,
                          !.awaiting = IF step.event # None THEN n ELSE 0,
                          !.sent = IF step.event # None THEN Append(@, n) ELSE @,
                          !.delivered = IF step.pc = "done" THEN step.outcome
                                        ELSE NoOutcome]

\* The native fetch settles                          (instrumentation.ts:72)
NativeSettle ==
    /\ fetchCall.pc = "native"
    /\ \E o \in NativeOutcomes :
         LET call == [fetchCall EXCEPT !.native = o]
             step == IF fetchCall.intercepted
                     THEN TapAfterFetch(1, fetchCall.layers, o,
                                        UrlOf(fetchCall.input), fetchCall.init)
                     ELSE [pc |-> "done", layer |-> 0, outcome |-> o,
                           event |-> None]
         IN Advance(call, step, forwards)
    /\ UNCHANGED <<taps, fetches, errorOverride, consoleCalls, lastConsole>>
    /\ UNCHANGED <<loggerVars, realtimeVars>>

\* A POST of sendToServer settles: the promise of its fetch resolves (with
\* any status) or rejects.  The tap that awaited it returns the response or
\* rethrows the error                          (instrumentation.ts:117, 140),
\* which resumes the tap around it.  A POST that a tap had taken for a
\* backend call would, on failure, be reported by another POST.
ForwardSettle(i) ==
    /\ forwards[i].state = "inflight"
    /\ \E result \in {"resolved", "rejected"} :
         LET settled == [forwards EXCEPT ![i].state = result]
             again == forwards[i].route = "intercept" /\ result = "rejected"
                        /\ Len(forwards) < ForwardCap
             o == AfterSendToServer(result, fetchCall.current)
         IN IF fetchCall.pc = "forwarding" /\ fetchCall.awaiting = i
            THEN Advance(fetchCall,
                         TapAfterFetch(fetchCall.layer + 1, fetchCall.layers, o,
                                       UrlOf(fetchCall.input), fetchCall.init),
                         settled)
            ELSE /\ forwards' =
                      IF again
                      THEN Append(settled,
                                  sendToServer(ThrowEvent(IngestUrl,
                                                          [method |-> Some("POST")],
                                                          FetchTypeError),
                                               [fetch |-> 0, layer |-> 0]))
                      ELSE settled
                 /\ events' = IF again THEN events + 1 ELSE events
                 /\ UNCHANGED <<consoleProxies, fetchCall>>
    /\ UNCHANGED <<taps, fetches, errorOverride, consoleCalls, lastConsole>>
    /\ UNCHANGED <<loggerVars, realtimeVars>>

TapNext ==
    \/ Register
    \/ FetchStart
    \/ NativeSettle
    \/ \E i \in DOMAIN forwards : ForwardSettle(i)

(***************************************************************************)
(* The browser console after register().  console is a chain: the native   *)
(* object, whose error property holds the function register() assigned     *)
(* last, wrapped by the proxies of consoleProxies (the outermost is last):  *)
(* "safe" is safeConsole (instrumentation.ts:212-237), "noop" the proxy a   *)
(* tap puts around the console when a backend call fails (91-98, 120-127).  *)
(***************************************************************************)
\* The messages the page prints, joined as args.join(" ") joins them.
ConsoleMessages ==
    { <<"request to ", "https://", "proj", ".", "supabase.co", " failed">>,
      <<"render failed">> }

\* The event made for a diverted console.error  (instrumentation.ts:196-205)
ConsoleEvent(msg) ==
    [name |-> "Supabase.consoleError", level |-> "error", hasDuration |-> FALSE,
     attributes |-> [message |-> msg]]

\* console.error(msg) entering the chain at the proxy at position d (0 is the
\* native object).  The result is where the message ends:
\*   "forwarded"  given to sendToServer and not printed,
\*   "printed"    printed by the native console.error,
\*   "dropped"    swallowed by the empty function of a silencing proxy,
\*   "overflow"   the call never returns normally: the function assigned to
\*                console.error calls the saved originalConsoleError, which
\*                is the function of a safeConsole proxy and leads back to
\*                the native object's error property, the same function
\*                again, until the stack is exhausted (RangeError).
RECURSIVE CallError(_, _, _, _)
CallError(d, proxies, override, msg) ==
    IF d = 0
    THEN IF override = None THEN "printed"
         ELSE IF IncludesBackendHost(msg) THEN "forwarded"
         ELSE LET original == override[1].original
              IN IF original.kind = "native" THEN "printed"
                 ELSE IF original.kind = "noop" THEN "dropped"
                 ELSE IF \E i \in 1..(original.depth - 1) : proxies[i] = "noop"
                      THEN "dropped"
                      ELSE "overflow"
    ELSE IF proxies[d] = "noop" THEN "dropped"
    ELSE IF IncludesBackendHost(msg) THEN "forwarded"
    ELSE CallError(d - 1, proxies, override, msg)

\* Any other console method: every proxy hands out the method of its target
\*                                      (instrumentation.ts:96, 232), so the
\* native method is called.
CallOther(proxies) == "printed"

\* The page calls console.error(msg) or console.log(msg).
ConsoleCall ==
    /\ consoleCalls < MaxConsoleCalls
    /\ \E method \in {"error", "log"}, msg \in ConsoleMessages :
         LET result == IF method = "error"
                       THEN CallError(Len(consoleProxies), consoleProxies,
                                      errorOverride, msg)
                       ELSE CallOther(consoleProxies)
         IN /\ lastConsole' = [method |-> method, msg |-> msg, result |-> result,
                               installs |-> taps, chain |-> consoleProxies]
            /\ forwards' = IF result = "forwarded"
                           THEN Append(forwards,
                                       sendToServer(ConsoleEvent(msg),
                                                    [fetch |-> 0, layer |-> 0]))
                           ELSE forwards
            /\ events' = IF result = "forwarded" THEN events + 1 ELSE events
    /\ consoleCalls' = consoleCalls + 1
    /\ UNCHANGED <<taps, consoleProxies, fetchCall, fetches, errorOverride>>
    /\ UNCHANGED <<loggerVars, realtimeVars>>

\* The steps of the page and of the network while the POSTs to the ingest
\* endpoint are still pending.
ConsoleNext ==
    \/ Register
    \/ FetchStart
    \/ NativeSettle
    \/ ConsoleCall

\* The tap runs in the browser and never reads NODE_ENV.
TapInit == Init /\ NODE_ENV = "production"

TapSpec == TapInit /\ [][TapNext]_vars

\* The tap together with the page's console calls, observed while the
\* ingest endpoint has not answered yet.
ConsoleSpec == TapInit /\ [][ConsoleNext]_vars

\* The tap when the network answers every call of the page but may leave a
\* POST to the ingest endpoint pending for ever: the native fetch of the
\* page's call is the only step that is sure to happen.
TapLiveSpec == TapInit /\ [][TapNext]_vars /\ WF_vars(NativeSettle)

(***************************************************************************)
(* Claims about the store.                                                 *)
(***************************************************************************)
\* The records log() stored since the store was last emptied, newest first.
SinceClear ==
    [i \in 1..(Len(appended) - clearedAt) |-> appended[Len(appended) - i + 1]]

\* C1: after any sequence of log() calls made in development the store never
\* holds more than MAX_LOGS records, and it holds exactly the last
\* Min(n, MAX_LOGS) of the n records appended (since the store was created or
\* last cleared), newest first; so once more than MAX_LOGS records have been
\* appended it holds exactly the last MAX_LOGS of them.
C1_StoreHoldsLastAppended ==
    /\ Len(logs) <= MAX_LOGS
    /\ logs = SubSeq(SinceClear, 1, Min(Len(SinceClear), MAX_LOGS))

\* More than MAX_LOGS records were appended by log() alone, the oldest was
\* evicted, and the retained records are not all alike.
C1_Witness ==
    /\ clearedAt = 0
    /\ Len(appended) > MAX_LOGS
    /\ Len(logs) = MAX_LOGS
    /\ logs[1] = appended[Len(appended)]
    /\ logs[MAX_LOGS] = appended[2]
    /\ appended[1] # appended[2]
    /\ logs[1] # logs[MAX_LOGS]

\* C2: getLogs(limit, level) leaves the store (and the console) unchanged and
\* returns at most limit records (DefaultLimit when limit is omitted): the
\* k-th record returned is the k-th record of the store, in store order,
\* among those whose level is the requested one (among all records when no
\* level is given), so the filter is applied before the truncation.
C2_GetLogsFiltersThenTruncates ==
    lastOp.op = "getLogs" =>
        LET lim == IF lastOp.limit = None THEN DefaultLimit ELSE lastOp.limit[1]
            M == {i \in DOMAIN logs :
                    lastOp.level = None \/ logs[i].level = lastOp.level[1]}
            rank(i) == Cardinality({j \in M : j <= i})
            res == lastOp.returned
        IN /\ logs = prevLogs
           /\ consoleOut = prevOut
           /\ Len(res) <= lim
           /\ Len(res) = Min(lim, Cardinality(M))
           /\ \A i \in M : rank(i) <= lim => res[rank(i)] = logs[i]

\* A query with a level and a limit that both bite: the newest record of the
\* store is not of the requested level, more records match than the limit
\* admits, and the record returned lies behind a record that was filtered out.
C2_Witness ==
    /\ lastOp.op = "getLogs"
    /\ lastOp.level = Some("error")
    /\ lastOp.limit = Some(1)
    /\ Len(logs) = MAX_LOGS
    /\ logs[1].level # "error"
    /\ Cardinality({i \in DOMAIN logs : logs[i].level = "error"}) >= 2
    /\ Len(lastOp.returned) = 1
    /\ lastOp.returned[1].level = "error"

\* C12: every record held in the store has sanitized details: no key of the
\* stored mapping starts with an underscore, no value is null or undefined,
\* and the mapping log() has just stored equals sanitizeLogDetails of the
\* mapping it was called with.
C12_StoredDetailsAreSanitized ==
    /\ \A i \in DOMAIN logs :
         logs[i].details # None =>
            \A j \in DOMAIN logs[i].details[1] :
                /\ ~StartsWithUnderscore(logs[i].details[1][j].k)
                /\ logs[i].details[1][j].v.t \notin {"undefined", "null"}
    /\ (lastOp.op = "log" /\ lastOp.env = "development"
            /\ lastOp.input.details # None =>
          logs[1].details =
              Some(sanitizeLogDetails(lastOp.input.details[1], lastOp.env)))

\* C20: clearLogs() empties the store; an array returned by getLogs is a
\* snapshot, whose length, order and records are not changed by any later
\* log() or clearLogs(); and a record, once appended, is never modified:
\* every record in the store or in a kept array is as log() appended it.
C20_ClearEmptiesAndSnapshotsStay ==
    /\ lastOp.op = "clearLogs" => logs = <<>>
    /\ held # None =>
          /\ ~held[1].shared
          /\ held[1].items = held[1].returned
          /\ \A i \in DOMAIN held[1].items :
               \E j \in 1..held[1].at : held[1].items[i] = appended[j]
    /\ \A i \in DOMAIN logs : logs[i] = appended[Len(appended) - i + 1]

\* A caller kept an array of two records; after that log() appended more
\* records and clearLogs() emptied the store.
C20_Witness ==
    /\ held # None
    /\ Len(held[1].returned) = 2
    /\ held[1].returned[1] # held[1].returned[2]
    /\ Len(appended) > held[1].at
    /\ lastOp.op = "clearLogs"
    /\ logs = <<>>

(***************************************************************************)
(* Claims about the pure functions.                                        *)
(***************************************************************************)
\* C13: sanitizeLogDetails over a flat mapping keeps, in their order, exactly
\* the entries whose key does not start with an underscore and whose value
\* is neither null nor undefined; a kept entry whose key contains password,
\* token, key, secret or session has the value [REDACTED] when NODE_ENV is
\* production and its original value when it is development; every other
\* kept entry has its original value, whatever is nested in it.
C13_SanitizeDropsAndRedacts ==
    lastOp.op = "sanitizeLogDetails" =>
        LET d == lastOp.details
            r == lastOp.returned
            kept == {i \in DOMAIN d : /\ d[i].k[1] # "_"
                                      /\ d[i].v.t # "null"
                                      /\ d[i].v.t # "undefined"}
            rank(i) == Cardinality({j \in kept : j <= i})
            sensitive(k) == \E n \in DOMAIN k :
                k[n] \in {"password", "token", "key", "secret", "session"}
        IN /\ Len(r) = Cardinality(kept)
           /\ \A i \in kept :
                /\ r[rank(i)].k = d[i].k
                /\ sensitive(d[i].k) /\ lastOp.env = "production"
                      => r[rank(i)].v = [t |-> "[REDACTED]", items |-> <<>>]
                /\ sensitive(d[i].k) /\ lastOp.env = "development"
                      => r[rank(i)].v = d[i].v
                /\ ~sensitive(d[i].k) => r[rank(i)].v = d[i].v

\* In production a mapping with a dropped underscore key and a kept key that
\* contains "token" inside a longer name was sanitized.
C13_Witness ==
    /\ lastOp.op = "sanitizeLogDetails"
    /\ lastOp.env = "production"
    /\ lastOp.details = <<Entry(<<"_", "internal">>, Val("str")),
                          Entry(<<"access_", "token">>, Val("str"))>>
    /\ lastOp.returned = <<Entry(<<"access_", "token">>, Val("[REDACTED]"))>>

\* C15: getEnvironment() always returns one of development, preview,
\* production: on the server NEXT_PUBLIC_VERCEL_ENV when set, else NODE_ENV
\* when set, else development; in a browser development when the hostname
\* is localhost and production otherwise.
C15_GetEnvironmentReturnsAnEnvironment ==
    lastOp.op = "getEnvironment" =>
        /\ lastOp.returned \in {"development", "preview", "production"}
        /\ lastOp.returned =
              IF lastOp.hasWindow
              THEN IF lastOp.hostname = "localhost" THEN "development"
                   ELSE "production"
              ELSE IF lastOp.vercelEnv # "" THEN lastOp.vercelEnv
              ELSE IF lastOp.nodeEnv # "" THEN lastOp.nodeEnv
              ELSE "development"

(***************************************************************************)
(* Claims about the ingest endpoint.                                       *)
(***************************************************************************)
\* The elements of a posted array all have a name.
WellFormed(body) ==
    body.kind = "array" /\ \A i \in DOMAIN body.items : body.items[i].name # None

\* C14: POST /api/traces with a well-formed JSON array of trace events
\* answers 200 with {ok: true} and prints exactly one line for each event
\* whose name starts with "Supabase." and whose level is error, in their
\* order, and none for any other event; a body that is not a JSON array is
\* answered with 400 and {error: "Invalid trace data"}.
C14_IngestAnswersAndPrintsBackendErrors ==
    lastOp.op = "POST" =>
        LET body == lastOp.body
            res == lastOp.response
            backend == {i \in DOMAIN body.items :
                          /\ body.items[i].name[1][1] = "Supabase."
                          /\ body.items[i].level = Some("error")}
            rank(i) == Cardinality({j \in backend : j <= i})
        IN /\ WellFormed(body) =>
                /\ res.status = 200
                /\ res.json = "{ok: true}"
                /\ Len(res.lines) = Cardinality(backend)
                /\ \A i \in backend :
                     res.lines[rank(i)].timestamp = body.items[i].timestamp
           /\ body.kind # "array" =>
                /\ res.status = 400
                /\ res.json = "{error: Invalid trace data}"

\* C19: the ingest endpoint never changes the log store: after every POST
\* /api/traces, answered 200 or 400, the store is what it was before the
\* request, and so is the result of every getLogs query.
C19_IngestLeavesStoreUnchanged ==
    lastOp.op = "POST" =>
        /\ logs = prevLogs
        /\ \A limit \in QueryLimits, level \in QueryLevels :
             getLogs(logs, limit, level) = getLogs(prevLogs, limit, level)

\* With records in the store, an array holding a backend error event was
\* posted, answered 200, and its line was printed.
C19_Witness ==
    /\ lastOp.op = "POST"
    /\ logs # <<>>
    /\ lastOp.response.status = 200
    /\ Len(lastOp.response.lines) = 1
    /\ Len(lastOp.body.items) = 2

(***************************************************************************)
(* Claims about the wrapped client.                                        *)
(***************************************************************************)
Done(c) == calls[c].pc = "done" /\ calls[c].viaProxy

\* C3: for a client wrapped in development, a method whose original returns V
\* returns exactly V to the caller and appends exactly one record, with level
\* info, the method's property name as operation, and a duration that is
\* present and >= 0.
C3_WrappedReturnLogsOneInfoRecord ==
    \A c \in 1..MaxCalls :
        Done(c) /\ calls[c].original.type = "return" =>
            /\ calls[c].delivered = calls[c].original
            /\ Len(calls[c].stored) = 1
            /\ calls[c].stored[1].level = "info"
            /\ calls[c].stored[1].operation = calls[c].prop
            /\ calls[c].stored[1].duration # None
            /\ calls[c].stored[1].duration[1] >= 0

\* C4: for a client wrapped in development, a method whose original raises E
\* re-raises the same E to the caller and appends exactly one record, with
\* level error and the method's property name as operation.
C4_WrappedThrowRethrowsAndLogsOneErrorRecord ==
    \A c \in 1..MaxCalls :
        Done(c) /\ calls[c].original.type = "throw" =>
            /\ calls[c].delivered = calls[c].original
            /\ Len(calls[c].stored) = 1
            /\ calls[c].stored[1].level = "error"
            /\ calls[c].stored[1].operation = calls[c].prop

\* C5: a failure inside the logging path never changes the outcome of the
\* wrapped call: the caller receives V when the original returned V and E
\* when it raised E, also when log() raises while recording the call.
C5_LoggingFailureKeepsOutcome ==
    \A c \in 1..MaxCalls :
        Done(c) => calls[c].delivered = calls[c].original

\* C10: when the environment is not development, log() is a no-op: the store
\* is unchanged, nothing is printed, and neither the record formatting
\* (formatLog) nor the error formatting (formatError) is executed.
C10_LogOutsideDevelopmentIsNoOp ==
    lastOp.op = "log" /\ lastOp.env # "development" =>
        /\ logs = prevLogs
        /\ consoleOut = prevOut
        /\ lastOp.ran \cap {"formatLog", "formatError"} = {}

\* C16: with several wrapped calls in flight at once, every call appends
\* exactly one record, in one step at its completion: the records appended
\* are as many as the calls completed (none lost, none duplicated), the store
\* never holds more than MAX_LOGS records, and the record of the call that
\* completed last is at the front with the earlier records behind it in
\* their previous order.
C16_ConcurrentCallsAppendOneRecordEach ==
    /\ Len(logs) <= MAX_LOGS
    /\ Len(appended) = Cardinality({c \in 1..MaxCalls : Done(c)})
    /\ \A c \in 1..MaxCalls : Done(c) => Len(calls[c].stored) = 1
    /\ logs = SubSeq(SinceClear, 1, Min(Len(SinceClear), MAX_LOGS))
    /\ (lastOp.op = "settle" /\ calls[lastOp.call].viaProxy =>
            /\ logs # <<>>
            /\ <<logs[1]>> = calls[lastOp.call].stored
            /\ Tail(logs) = SubSeq(prevLogs, 1, Len(logs) - 1))

\* C11: when the environment is not development, wrapClient(client) returns
\* the client itself, so a method called on the result settles with exactly
\* what the original method settled with (value or error) and no record is
\* appended: the store stays empty and log() is never run.
C11_WrapOutsideDevelopmentIsIdentity ==
    NODE_ENV # "development" /\ wrapped # "none" =>
        /\ wrapped = "identity"
        /\ logs = <<>>
        /\ appended = <<>>
        /\ logCalls = 0
        /\ \A c \in 1..MaxCalls :
             /\ calls[c].pc # "idle" => ~calls[c].viaProxy
             /\ calls[c].pc = "done" =>
                    /\ calls[c].delivered = calls[c].original
                    /\ calls[c].stored = <<>>

\* In production two calls were made on the result of wrapClient, one
\* returned an object and the other threw.
C11_Witness ==
    /\ NODE_ENV = "production"
    /\ wrapped = "identity"
    /\ calls[1].pc = "done"
    /\ calls[2].pc = "done"
    /\ calls[1].delivered = Returned(Result("object", 1, Val("obj")))
    /\ calls[2].delivered = Thrown(ErrPlain)
    /\ calls[2].args = <<"cyc">>

(***************************************************************************)
(* Claims about the network tap.                                           *)
(***************************************************************************)
Noops(proxies) == SelectSeq(proxies, LAMBDA x : x = "noop")

\* The POSTs made for the page's call, in the order the taps made them.
SentFor(call) == [k \in DOMAIN call.sent |-> forwards[call.sent[k]]]

\* C6: when a tapped fetch to a backend URL throws E, the tap (each tap that
\* wraps fetch) forwards one Supabase.error event carrying E's message to the
\* ingest endpoint, and then the caller observes a rejection with exactly E,
\* whether the forwarding POST resolved or rejected.
C6_ThrowIsForwardedThenRethrown ==
    fetchCall.pc = "done" /\ fetchCall.intercepted
        /\ fetchCall.native.type = "throw" =>
        /\ fetchCall.delivered = fetchCall.native
        /\ Len(fetchCall.sent) = fetchCall.layers
        /\ \A k \in DOMAIN fetchCall.sent :
             LET f == SentFor(fetchCall)[k]
             IN /\ f.cause.layer = k
                /\ f.url = <<"/api/traces">>
                /\ f.state \in {"resolved", "rejected"}
                /\ f.event.name = "Supabase.error"
                /\ f.event.attributes.error # None
                /\ f.event.attributes.error[1].text = fetchCall.native.error.text

\* A backend fetch threw, the single tap's POST was rejected, and the call
\* has completed.
C6_Witness ==
    /\ fetchCall.pc = "done"
    /\ fetchCall.intercepted
    /\ fetchCall.layers = 1
    /\ fetchCall.native = Rejected(AbortError)
    /\ Len(fetchCall.sent) = 1
    /\ forwards[fetchCall.sent[1]].state = "rejected"

\* C7: when a tapped fetch to a backend URL resolves with a non-2xx response
\* R, the tap (each tap that wraps fetch) forwards exactly one event named
\* Supabase.error carrying the method, the status, the status text and the
\* JSON payload (when the response is JSON that parses), and the caller
\* receives the same R with its body unconsumed; for a 2xx response no event
\* is forwarded and the caller receives R.
C7_NonOkResponseIsForwardedOnce ==
    fetchCall.pc = "done" /\ fetchCall.intercepted
        /\ fetchCall.native.type = "response" =>
        LET r == fetchCall.native.response
        IN /\ fetchCall.delivered = fetchCall.native
           /\ ~fetchCall.delivered.response.bodyUsed
           /\ IF r.status \in 200..299
              THEN fetchCall.sent = <<>>
              ELSE /\ Len(fetchCall.sent) = fetchCall.layers
                   /\ \A k \in DOMAIN fetchCall.sent :
                        LET f == SentFor(fetchCall)[k]
                            a == f.event.attributes
                        IN /\ f.cause.layer = k
                           /\ f.url = <<"/api/traces">>
                           /\ f.event.name = "Supabase.error"
                           /\ a.method = IF fetchCall.init.method = None
                                         THEN "GET" ELSE fetchCall.init.method[1]
                           /\ a.status = Some(r.status)
                           /\ a.statusText = Some(r.statusText)
                           /\ a.error = IF r.json /\ r.valid
                                        THEN Some([kind |-> "json", of |-> r.id,
                                                   text |-> ""])
                                        ELSE None

\* A backend fetch made with POST resolved with the 404 JSON response, the
\* single tap forwarded its event, and the call has completed.
C7_Witness ==
    /\ fetchCall.pc = "done"
    /\ fetchCall.intercepted
    /\ fetchCall.layers = 1
    /\ fetchCall.init.method = Some("POST")
    /\ fetchCall.native.type = "response"
    /\ fetchCall.native.response.status = 404
    /\ Len(fetchCall.sent) = 1
    /\ forwards[fetchCall.sent[1]].event.attributes.error # None

\* C8: for a fetch whose URL does not contain supabase.co, the tap calls the
\* fetch it wrapped with the same input and init, returns its result or
\* failure unchanged, forwards no event, and leaves the console as it was
\* (no silencing proxy is added).
C8_OtherUrlsAreDelegatedUnchanged ==
    fetchCall.pc \in {"native", "done"}
        /\ (\A i \in DOMAIN fetchCall.input.url :
                fetchCall.input.url[i] # "supabase.co") =>
        /\ fetchCall.handed = [input |-> fetchCall.input, init |-> fetchCall.init]
        /\ fetchCall.sent = <<>>
        /\ Len(forwards) = fetchCall.forwardsAtStart
        /\ Noops(consoleProxies) = Noops(fetchCall.consoleAtStart)
        /\ (fetchCall.pc = "done" => fetchCall.delivered = fetchCall.native)

\* A fetch to another host went through an installed tap and failed.
C8_Witness ==
    /\ fetchCall.pc = "done"
    /\ fetchCall.layers >= 1
    /\ fetchCall.input.url = OtherUrl
    /\ fetchCall.native.type = "throw"
    /\ fetchCall.delivered = fetchCall.native

\* C9: a forwarding call that fails is silently dropped: every event is
\* posted once (no two POSTs for the same event of the same tap), the POST
\* is never taken by a tap for a backend call, so no POST is made on behalf
\* of another POST, and a rejected POST leaves the caller's outcome as the
\* native fetch produced it.
C9_FailedForwardIsDropped ==
    /\ \A i \in DOMAIN forwards :
         /\ forwards[i].route = "delegate"
         /\ forwards[i].cause.fetch >= 1
         /\ forwards[i].cause.layer >= 1
    /\ \A i, j \in DOMAIN forwards :
         i # j => forwards[i].cause # forwards[j].cause
    /\ Len(forwards) = events
    /\ (fetchCall.pc = "done" /\ (\E k \in DOMAIN fetchCall.sent :
                                    forwards[fetchCall.sent[k]].state = "rejected")
            => fetchCall.delivered = fetchCall.native)

\* The only POST of the run was rejected and the call has completed.
C9_Witness ==
    /\ fetchCall.pc = "done"
    /\ Len(forwards) = 1
    /\ forwards[1].state = "rejected"
    /\ events = 1

\* C18: once the tap is installed, and after any tapped fetches, a
\* console.error call whose joined message mentions the backend host is
\* forwarded to the ingest endpoint and not printed, while a console.error
\* call whose message does not mention it, and a call of any other console
\* method, is printed by the original console.
C18_ConsoleDivertsOnlyBackendErrors ==
    lastConsole.method # "none" /\ lastConsole.installs >= 1 =>
        lastConsole.result =
            IF lastConsole.method = "error"
                 /\ (\E i \in DOMAIN lastConsole.msg :
                        lastConsole.msg[i] = "supabase.co")
            THEN "forwarded"
            ELSE "printed"

\* C17: forwarding never blocks the primary operation: a fetch the page has
\* made is eventually completed (its response returned or its error
\* rethrown to the caller) once the native fetch has settled, also when the
\* POST to the ingest endpoint never completes.
C17_CallerIsNotBlockedByForwarding ==
    (fetchCall.pc = "native") ~> (fetchCall.pc = "done")

\* C21: the tap is installed once per process: after any number of
\* register() calls in a browser window.fetch is wrapped exactly once, so a
\* backend call that fails (non-2xx response or throw) forwards exactly one
\* Supabase.error event.
C21_TapIsInstalledOnce ==
    /\ taps <= 1
    /\ (fetchCall.pc = "done" /\ fetchCall.intercepted
           /\ (fetchCall.native.type = "throw"
                  \/ ~IsOk(fetchCall.native.response)) =>
          /\ Len(fetchCall.sent) = 1
          /\ Len(forwards) - fetchCall.forwardsAtStart = 1)

\* C22: tracking a realtime channel registers it under its name and appends
\* one info record with operation realtime.status for each status
\* transition in development, while the channel is left as it would be
\* without tracking: tracking makes no subscribe call on the channel and adds
\* no callback, so every subscription of the channel is one the application
\* made.
C22_TrackingLeavesChannelAlone ==
    /\ \A i \in DOMAIN channel.subscribers :
         /\ channel.subscribers[i].by = "caller"
    /\ (lastOp.op = "trackRealtimeChannel" =>
            /\ lastOp.name \in realtimeChannels
            /\ lastOp.returned = "channel"
            /\ channel.subscribers = lastOp.before)
    /\ (lastOp.op = "status" /\ lastOp.env = "development"
           /\ realtimeChannels # {} =>
            /\ Len(lastOp.stored) = 1
            /\ lastOp.stored[1].level = "info"
            /\ lastOp.stored[1].operation = "realtime.status")

\* C23: every event a tap forwards for an intercepted backend call carries a
\* host-redacted URL: whatever the scheme or form of the URL that was
\* recognised as a backend URL, the url attribute of the event holds the
\* placeholder [SUPABASE_URL] in place of the backend host and holds neither
\* the project name nor the backend host.
C23_ForwardedUrlIsRedacted ==
    \A k \in DOMAIN forwards :
        LET url == forwards[k].event.attributes.url
        IN /\ \E i \in DOMAIN url : url[i] = "[SUPABASE_URL]"
           /\ \A i \in DOMAIN url : url[i] \notin {"proj", "supabase.co"}

\* C24: in every reachable state every record held in the store has the
\* environment field development, whatever NODE_ENV was before or becomes
\* after the record was appended: only a log() call that read development
\* changes the store, and the record's field comes from that same reading.
C24_StoredRecordsAreDevelopment ==
    /\ \A i \in DOMAIN logs : logs[i].environment = "development"
    /\ (lastOp.op = "log" /\ logs # prevLogs => lastOp.env = "development")

\* C24 witness: records were stored, a log() call made outside development
\* stored nothing, and NODE_ENV has since been assigned production while
\* the records are still held.
C24_Witness ==
    /\ lastOp.op = "setEnv"
    /\ lastOp.from = "development"
    /\ NODE_ENV = "production"
    /\ Len(logs) >= 2
    /\ logCalls > Len(appended)

====
